---- MODULE Spec2Model ----
(***************************************************************************)
(* A model of the redust Store (src/src/store.rs): one owned state value,  *)
(* a reducer, a HashMap of subscriptions keyed by a u8 token and the u8    *)
(* counter the tokens are drawn from.  One action per public method; each  *)
(* action is the whole method, observers' invocations included.            *)
(***************************************************************************)
EXTENDS Integers, FiniteSets, Sequences, TLC

VARIABLES
    reducer_fn,           \* Store::reducer, the fn the Store was built with
    state,                \* Store::state, a u8 (type MyStore = u8 in the tests)
    subscriptions,        \* Store::subscriptions, HashMap<SubscriptionToken, Subscription>
    subscriptions_index,  \* Store::subscriptions_index, a u8
    overflow_checks,      \* build profile: TRUE = overflow checks on (debug), FALSE = wrapping (release)
    ret,                  \* the last call: its method, argument, outcome and returned token
    calls,                \* observer invocations made by the last call, keyed by registry entry
    nsubscribe,           \* number of subscribe calls made so far (history)
    ndispatch,            \* number of dispatch calls made so far (history)
    removed,              \* registrations (by subscribe call number) whose unsubscribe returned Ok (history)
    issued,               \* how many times subscribe has returned each token (history)
    dispatched,           \* the actions passed to dispatch so far, in call order (history)
    chain                 \* the dispatch calls made since the last subscribe or unsubscribe, each of
                          \* them on the Store itself or on the reference the one before returned (history)

vars == <<reducer_fn, state, subscriptions, subscriptions_index, overflow_checks, ret, calls,
          nsubscribe, ndispatch, removed, issued, dispatched, chain>>

----------------------------------------------------------------------------
(* Bounds of the exploration *)

\* subscribe calls explored; more than 2^8, so that the u8 token counter is exhausted
MaxSubscribe == 257
\* dispatch calls explored
MaxDispatch == 2
\* the first MaxVaried subscribe calls pass any observer, the later ones DefaultObserver
MaxVaried == 1
\* a dispatch in which an observer panics is explored with at most MaxNotified entries registered
MaxNotified == 3
\* dispatch calls in one chain store.dispatch(a1).dispatch(a2)...
MaxChain == 3
\* subscribe calls explored where chains are
MaxChainSubscribe == 2

----------------------------------------------------------------------------
(* Program constants and types *)

\* SubscriptionToken = u8
TokenBits == 8
U8Modulus == 2 ^ TokenBits
U8 == 0 .. (U8Modulus - 1)

\* let wrong_token = 99;
wrong_token == 99

\* Store::new(reducer, 0)
initial_state == 0

\* the constant the tests' observer compares the state with
expected_state == 1

\* fn reducer(_state, _action) -> MyStore { 1 }
constant_state == 1

\* the reducers of the tests: Increment => state + 1, Decrement => state - 1; and the constant 1
Reducers == {"inc_dec", "const_1"}

\* enum MyAction { Increment, Decrement }, and enum MyAction { Increment } beside the constant reducer
MyAction ==
    IF reducer_fn = "inc_dec" THEN {"Increment", "Decrement"} ELSE {"Increment"}

\* Subscription<State> = fn(&State): the tests' closure and a closure with an empty body
Observers == {"assert_eq_1", "noop"}
DefaultObserver == "assert_eq_1"

\* tokens the caller passes to unsubscribe: the first token issued and the tests' wrong token
TokenInputs == {0, wrong_token}

NoToken == -1
EmptyMap == <<>>

\* `self` in the methods of Store: the Store the calls are made on, as the place a &mut Self points to
SelfRef == "self"
\* a Store that is not the one the calls are made on
OtherRef == "other"

----------------------------------------------------------------------------
(* u8 arithmetic: `+` and `-` panic on overflow when overflow checks are on *)
(* and wrap modulo 2^8 when they are off                                   *)

U8Add(x, y) ==
    IF x + y >= U8Modulus
    THEN [panic |-> overflow_checks, value |-> (x + y) % U8Modulus]
    ELSE [panic |-> FALSE, value |-> x + y]

U8Sub(x, y) ==
    IF x - y < 0
    THEN [panic |-> overflow_checks, value |-> (x - y + U8Modulus) % U8Modulus]
    ELSE [panic |-> FALSE, value |-> x - y]

\* fn reducer(state, action) of the Store: Increment => state + 1, Decrement => state - 1;
\* or fn reducer(_state, _action) { 1 }
reducer(s, a) ==
    IF reducer_fn = "const_1"
    THEN [panic |-> FALSE, value |-> constant_state]
    ELSE IF a = "Increment" THEN U8Add(s, 1) ELSE U8Sub(s, 1)

\* |state| { assert_eq!(*state, 1); } panics when the state is not 1; the empty closure never does
ObserverPanics(f, s) ==
    f = "assert_eq_1" /\ s # expected_state

----------------------------------------------------------------------------
(* HashMap operations *)

\* HashMap::insert: the value under an existing key is replaced
Insert(m, k, v) ==
    [x \in (DOMAIN m) \cup {k} |-> IF x = k THEN v ELSE m[x]]

\* a remove that takes nothing out
RemoveNothing(m, k) == m

\* HashMap::remove: the entry, if any, is taken out
Remove(m, k) ==
    [x \in (DOMAIN m) \ {k} |-> m[x]]

\* a lookup that only asks whether the map holds anything
ContainsKeyNonEmpty(m, k) == m # EmptyMap

\* the Option that HashMap::remove returns is Some exactly when the key is present
ContainsKey(m, k) == k \in DOMAIN m

----------------------------------------------------------------------------
(* Store *)

\* a constructor that does not store the initial state it is given
newOffByOne(initial) ==
    [state |-> initial + 1, subscriptions |-> EmptyMap, subscriptions_index |-> 0]

\* Store::new(reducer, initial_state): the fields of the new Store
new(initial) ==
    [state |-> initial, subscriptions |-> EmptyMap, subscriptions_index |-> 0]

\* Store::state(&self) -> &State
State == state

\* the subscribe call (numbered from 0) that made the entry now under token t
RegistrationOf(t) ==
    IF nsubscribe > U8Modulus + t THEN U8Modulus + t ELSE t

\* what a call leaves for its caller: the method, its argument, how it ended, the token or
\* the reference it carries
Returned(op, arg, res, val) ==
    [op |-> op, arg |-> arg, res |-> res, val |-> val]

\* a dispatch that drops the reducer's result
NewStateStale(old, r) == old

\* a dispatch that stores the wrapped value although the reducer panicked
NewStateDespitePanic(old, r) == r.value

\* self.state = (&self.reducer)(self.state(), &action): no assignment when the reducer panics
NewState(old, r) ==
    IF r.panic THEN old ELSE r.value

\* an observer invoked before the assignment to self.state
InvocationBeforeAssignment(subs, t, stored) ==
    [func |-> subs[t], seen |-> state, stored |-> state, times |-> 1]

\* one invocation `subsciber(&self.state)` of the entry under token t, `stored` being self.state
Invocation(subs, t, stored) ==
    [func |-> subs[t], seen |-> stored, stored |-> stored, times |-> 1]

\* a notification that misses the entry under the first token
NotifySkipsFirst(subs, visited, stored) ==
    [t \in visited \ {0} |-> Invocation(subs, t, stored)]

\* a notification that goes on to the remaining entries after an observer has panicked
NotifyAllEntries(subs, visited, stored) ==
    [t \in DOMAIN subs |-> Invocation(subs, t, stored)]

\* a notification that is skipped when the new state equals the old one
NotifyOnChange(subs, visited, stored) ==
    IF stored = state THEN EmptyMap ELSE [t \in visited |-> Invocation(subs, t, stored)]

\* self.subscriptions.iter().for_each(...) as far as the entries in `visited`
Notify(subs, visited, stored) ==
    [t \in visited |-> Invocation(subs, t, stored)]

\* a dispatch that hands back another Store than the one it was called on
DispatchReturnOther(self) == OtherRef

\* `self`, the last expression of dispatch: the &mut Self the call was made on
DispatchReturn(self) == self

\* no dispatch since the last subscribe or unsubscribe
NoChain == [start |-> NoToken, receivers |-> <<>>, actions |-> <<>>, notified |-> EmptyMap]

\* the chain c after dispatch(action) was called on `receiver` and made the invocations `made`
\* on the Store's observers
ChainAfter(c, receiver, action, made) ==
    [start     |-> c.start,
     receivers |-> Append(c.receivers, receiver),
     actions   |-> Append(c.actions, action),
     notified  |-> [t \in (DOMAIN c.notified) \cup (DOMAIN made) |->
                       (IF t \in DOMAIN c.notified THEN c.notified[t] ELSE 0)
                     + (IF t \in DOMAIN made THEN made[t].times ELSE 0)]]

\* an error that carries the first token instead of the offending one
UnsubscribeResultFirstToken(found, subscription_token) ==
    IF found
    THEN Returned("unsubscribe", subscription_token, "Ok", NoToken)
    ELSE Returned("unsubscribe", subscription_token, "Err", 0)

\* if let None = remove(..) { return Err(WrongToken(subscription_token)) } Ok(())
UnsubscribeResult(found, subscription_token) ==
    IF found
    THEN Returned("unsubscribe", subscription_token, "Ok", NoToken)
    ELSE Returned("unsubscribe", subscription_token, "Err", subscription_token)

Init ==
    /\ reducer_fn \in Reducers
    /\ state = new(initial_state).state
    /\ subscriptions = new(initial_state).subscriptions
    /\ subscriptions_index = new(initial_state).subscriptions_index
    /\ overflow_checks \in BOOLEAN
    /\ ret = Returned("new", initial_state, "Ok", NoToken)
    /\ calls = EmptyMap
    /\ nsubscribe = 0
    /\ ndispatch = 0
    /\ removed = {}
    /\ issued = EmptyMap
    /\ dispatched = <<>>
    /\ chain = NoChain

Panicked == ret.res = "panic"

\* a subscribe that calls the new observer with the current state as it registers it
SubscribeStepInvokes(func) ==
    LET subscription_token == subscriptions_index
        next == U8Add(subscriptions_index, 1)
    IN  /\ subscriptions' = Insert(subscriptions, subscription_token, func)
        /\ subscriptions_index' = IF next.panic THEN subscriptions_index ELSE next.value
        /\ ret' = IF next.panic
                  THEN Returned("subscribe", func, "panic", NoToken)
                  ELSE Returned("subscribe", func, "Ok", subscription_token)
        /\ issued' = IF next.panic
                     THEN issued
                     ELSE IF subscription_token \in DOMAIN issued
                     THEN [issued EXCEPT ![subscription_token] = @ + 1]
                     ELSE Insert(issued, subscription_token, 1)
        /\ calls' = Notify(subscriptions', {subscription_token}, state)
        /\ nsubscribe' = nsubscribe + 1
        /\ UNCHANGED <<reducer_fn, state, overflow_checks, ndispatch, removed, dispatched>>

\* Store::subscribe
SubscribeStep(func) ==
    LET subscription_token == subscriptions_index
        next == U8Add(subscriptions_index, 1)
    IN  /\ subscriptions' = Insert(subscriptions, subscription_token, func)
        /\ subscriptions_index' = IF next.panic THEN subscriptions_index ELSE next.value
        /\ ret' = IF next.panic
                  THEN Returned("subscribe", func, "panic", NoToken)
                  ELSE Returned("subscribe", func, "Ok", subscription_token)
        /\ issued' = IF next.panic
                     THEN issued
                     ELSE IF subscription_token \in DOMAIN issued
                     THEN [issued EXCEPT ![subscription_token] = @ + 1]
                     ELSE Insert(issued, subscription_token, 1)
        /\ calls' = EmptyMap
        /\ nsubscribe' = nsubscribe + 1
        /\ UNCHANGED <<reducer_fn, state, overflow_checks, ndispatch, removed, dispatched>>

Subscribe ==
    /\ ~Panicked
    /\ nsubscribe < MaxSubscribe
    /\ \E func \in Observers :
        /\ nsubscribe >= MaxVaried => func = DefaultObserver
        /\ SubscribeStep(func)
    /\ chain' = NoChain

\* Store::unsubscribe
UnsubscribeStep(subscription_token) ==
    LET found == ContainsKey(subscriptions, subscription_token)
    IN  /\ subscriptions' = Remove(subscriptions, subscription_token)
        /\ ret' = UnsubscribeResult(found, subscription_token)
        /\ removed' = IF found THEN removed \cup {RegistrationOf(subscription_token)} ELSE removed
        /\ calls' = EmptyMap
        /\ UNCHANGED <<reducer_fn, state, subscriptions_index, overflow_checks, nsubscribe, ndispatch, issued,
                       dispatched>>

Unsubscribe ==
    /\ ~Panicked
    /\ \E subscription_token \in TokenInputs : UnsubscribeStep(subscription_token)
    /\ chain' = NoChain

\* a dispatch that takes the entries out of the registry as it notifies them (drain for iter)
DispatchStepDrains(action) ==
    LET r == reducer(State, action)
        failing == {t \in DOMAIN subscriptions : ObserverPanics(subscriptions[t], r.value)}
    IN  /\ ndispatch' = ndispatch + 1
        /\ dispatched' = Append(dispatched, action)
        /\ subscriptions' = EmptyMap
        /\ UNCHANGED <<reducer_fn, subscriptions_index, overflow_checks, nsubscribe,
                       removed, issued>>
        /\ state' = NewState(state, r)
        /\ IF r.panic
           THEN \* the reducer panics: the assignment never happens, nobody is notified
                /\ calls' = EmptyMap
                /\ ret' = Returned("dispatch", action, "panic", NoToken)
           ELSE IF failing = {}
           THEN /\ calls' = Notify(subscriptions, DOMAIN subscriptions, state')
                /\ ret' = Returned("dispatch", action, "Ok", DispatchReturn(SelfRef))
           ELSE \* the iteration order is unspecified: any entries that do not panic may
                \* come before the first one that does, and the rest is never reached
                /\ Cardinality(DOMAIN subscriptions) <= MaxNotified
                /\ \E p \in failing :
                   \E before \in SUBSET ((DOMAIN subscriptions) \ failing) :
                       calls' = Notify(subscriptions, before \cup {p}, state')
                /\ ret' = Returned("dispatch", action, "panic", NoToken)

\* Store::dispatch
DispatchStep(action) ==
    LET r == reducer(State, action)
        failing == {t \in DOMAIN subscriptions : ObserverPanics(subscriptions[t], r.value)}
    IN  /\ ndispatch' = ndispatch + 1
        /\ dispatched' = Append(dispatched, action)
        /\ UNCHANGED <<reducer_fn, subscriptions, subscriptions_index, overflow_checks, nsubscribe,
                       removed, issued>>
        /\ state' = NewState(state, r)
        /\ IF r.panic
           THEN \* the reducer panics: the assignment never happens, nobody is notified
                /\ calls' = EmptyMap
                /\ ret' = Returned("dispatch", action, "panic", NoToken)
           ELSE IF failing = {}
           THEN /\ calls' = Notify(subscriptions, DOMAIN subscriptions, state')
                /\ ret' = Returned("dispatch", action, "Ok", DispatchReturn(SelfRef))
           ELSE \* the iteration order is unspecified: any entries that do not panic may
                \* come before the first one that does, and the rest is never reached
                /\ Cardinality(DOMAIN subscriptions) <= MaxNotified
                /\ \E p \in failing :
                   \E before \in SUBSET ((DOMAIN subscriptions) \ failing) :
                       calls' = Notify(subscriptions, before \cup {p}, state')
                /\ ret' = Returned("dispatch", action, "panic", NoToken)

\* store.dispatch(action): a call made on the Store itself
Dispatch ==
    /\ ~Panicked
    /\ ndispatch < MaxDispatch
    /\ \E action \in MyAction :
        /\ DispatchStep(action)
        /\ chain' = ChainAfter([NoChain EXCEPT !.start = state], SelfRef, action, calls')

\* dispatch(action) called on the Store `receiver` points to
DispatchOn(receiver, action) ==
    IF receiver = SelfRef
    THEN DispatchStep(action)
    ELSE \* the call is made on another Store: this one and its observers are not touched;
         \* the state and the observers of the other Store are not followed, so the call
         \* may return or panic in that Store's reducer or in one of its observers
         /\ \/ ret' = Returned("dispatch", action, "Ok", DispatchReturn(receiver))
            \/ ret' = Returned("dispatch", action, "panic", NoToken)
         /\ calls' = EmptyMap
         /\ ndispatch' = ndispatch + 1
         /\ dispatched' = Append(dispatched, action)
         /\ UNCHANGED <<reducer_fn, state, subscriptions, subscriptions_index, overflow_checks,
                        nsubscribe, removed, issued>>

\* store.dispatch(a1).dispatch(action): a call made on the reference the dispatch before returned
DispatchChained ==
    /\ ~Panicked
    /\ ret.op = "dispatch"
    /\ Len(chain.actions) < MaxChain
    /\ \E action \in MyAction :
        /\ DispatchOn(ret.val, action)
        /\ chain' = ChainAfter(chain, ret.val, action, calls')

Next ==
    \/ Subscribe
    \/ Unsubscribe
    \/ Dispatch

Spec == Init /\ [][Next]_vars

\* subscribe, as far as the chains are explored
SubscribeBeforeChain ==
    /\ nsubscribe < MaxChainSubscribe
    /\ Subscribe

NextChain ==
    \/ SubscribeBeforeChain
    \/ Unsubscribe
    \/ Dispatch
    \/ DispatchChained

\* the Store with its dispatch calls chained as well as made one by one
SpecChain == Init /\ [][NextChain]_vars

----------------------------------------------------------------------------
(* Properties *)

\* the last step was a call of dispatch that returned to its caller
DispatchReturned == ret.op = "dispatch" /\ ret.res = "Ok"

\* C1 Transition correctness: when dispatch(a) is called on a Store whose state is s
\* and returns, state() is reducer(s, a), whatever observers are registered.
C1_TransitionCorrectness ==
    [][(DispatchReturned' /\ ndispatch' # ndispatch)
         => State' = reducer(state, ret'.arg).value]_vars

\* a second dispatch has returned, with an observer registered, and left the state 2
C1_Witness ==
    /\ DispatchReturned
    /\ ndispatch = 2
    /\ State = 2
    /\ subscriptions # EmptyMap

\* C2 Notification completeness: a dispatch that returns has invoked every entry that
\* was registered when it was called exactly once, with the observer registered under
\* that token and the post-transition state, and has invoked nothing else.
C2_NotificationCompleteness ==
    [][(DispatchReturned' /\ ndispatch' # ndispatch)
         => /\ DOMAIN calls' = DOMAIN subscriptions
            /\ \A t \in DOMAIN calls' :
                  /\ calls'[t].times = 1
                  /\ calls'[t].func = subscriptions[t]
                  /\ calls'[t].seen = reducer(state, ret'.arg).value]_vars

\* a dispatch after subscribes and a successful unsubscribe has invoked two different
\* observers, and not the token that was unsubscribed
C2_Witness ==
    /\ DispatchReturned
    /\ \E t, u \in DOMAIN calls : calls[t].func # calls[u].func
    /\ wrong_token \in removed
    /\ wrong_token \notin DOMAIN calls

\* C3 Unsubscribe effectiveness: a registration whose unsubscribe returned Ok is not
\* invoked by any later dispatch.
C3_UnsubscribeEffectiveness ==
    \A t \in DOMAIN calls : RegistrationOf(t) \notin removed

\* a dispatch has invoked observers after token 0 was unsubscribed and issued again
C3_Witness ==
    /\ ret.op = "dispatch"
    /\ 0 \in removed
    /\ 0 \in DOMAIN calls
    /\ Cardinality(DOMAIN calls) > 1

\* C4 Unknown-token failure: unsubscribe(t) with t not a key of the registry returns
\* Err(WrongToken(t)) and leaves the registry, the token counter and the state as they
\* were; no observer is invoked.
C4_UnknownTokenFailure ==
    [][(ret'.op = "unsubscribe" /\ ~ContainsKey(subscriptions, ret'.arg))
         => /\ ret'.res = "Err"
            /\ ret'.val = ret'.arg
            /\ subscriptions' = subscriptions
            /\ subscriptions_index' = subscriptions_index
            /\ State' = State
            /\ calls' = EmptyMap]_vars

\* unsubscribe(99) has failed on a Store with observers registered and a changed state
C4_Witness ==
    /\ ret.op = "unsubscribe"
    /\ ret.arg = wrong_token
    /\ ret.res = "Err"
    /\ Cardinality(DOMAIN subscriptions) >= 2
    /\ State # initial_state

\* C5 Tokens are never reused: the token a subscribe returns differs from every token
\* an earlier subscribe on the same Store returned, so no token is returned twice.
C5_TokensNeverReused ==
    \A t \in DOMAIN issued : issued[t] <= 1

\* C6 subscribe cannot fail: a call of subscribe completes normally, returns a token
\* and leaves its observer registered under that token.
C6_SubscribeCannotFail ==
    ret.op = "subscribe"
        => /\ ret.res = "Ok"
           /\ ContainsKey(subscriptions, ret.val)
           /\ subscriptions[ret.val] = ret.arg

\* C7 A token of another Store is rejected: unsubscribe(t) with a token t that this
\* Store's subscribe never returned gives Err(WrongToken(t)) and leaves the registry
\* as it was, whatever observers are registered.
C7_ForeignTokenRejected ==
    [][(ret'.op = "unsubscribe" /\ ret'.arg \notin DOMAIN issued)
         => /\ ret'.res = "Err"
            /\ ret'.val = ret'.arg
            /\ subscriptions' = subscriptions]_vars

\* unsubscribe(99) has failed on a Store that never issued 99 and holds both observers
C7_Witness ==
    /\ ret.op = "unsubscribe"
    /\ ret.arg = wrong_token
    /\ ret.res = "Err"
    /\ wrong_token \notin DOMAIN issued
    /\ \E t, u \in DOMAIN subscriptions : subscriptions[t] # subscriptions[u]

\* C8 Ordering inside one dispatch: an observer is invoked only after the reducer has
\* run to completion and its result has been stored; the stored state and the value
\* the observer receives are both the post-transition state.
C8_OrderingInsideDispatch ==
    [][(ret'.op = "dispatch" /\ ndispatch' # ndispatch)
         => \A t \in DOMAIN calls' :
               /\ ~reducer(state, ret'.arg).panic
               /\ calls'[t].stored = reducer(state, ret'.arg).value
               /\ calls'[t].seen = reducer(state, ret'.arg).value]_vars

\* the first dispatch has notified several observers of the state 1 it produced
C8_Witness ==
    /\ DispatchReturned
    /\ ndispatch = 1
    /\ Cardinality(DOMAIN calls) >= 2
    /\ \A t \in DOMAIN calls : calls[t].seen = 1 /\ calls[t].seen # initial_state

\* C9 Stale-token failure is permanent: once unsubscribe(t) has succeeded, every later
\* unsubscribe(t) returns Err(WrongToken(t)), whatever calls happen in between.
C9_StaleTokenFailurePermanent ==
    [][(ret'.op = "unsubscribe" /\ \E r \in removed : r % U8Modulus = ret'.arg)
         => (ret'.res = "Err" /\ ret'.val = ret'.arg)]_vars

\* C10 Construction: the new Store has state S0 and an empty registry, so before any
\* subscribe every unsubscribe fails and a dispatch invokes no observer; state() is S0
\* until the first dispatch.
C10_Construction ==
    /\ nsubscribe = 0
         => /\ subscriptions = EmptyMap
            /\ calls = EmptyMap
            /\ ret.op = "unsubscribe" => (ret.res = "Err" /\ ret.val = ret.arg)
    /\ ndispatch = 0 => State = initial_state

\* before any subscribe, a dispatch has run and an unsubscribe after it has failed
C10_Witness ==
    /\ nsubscribe = 0
    /\ ndispatch = 1
    /\ ret.op = "unsubscribe"
    /\ ret.res = "Err"

\* the left fold of the reducer over the actions acts, from the state s
RECURSIVE FoldReducer(_, _)
FoldReducer(s, acts) ==
    IF acts = <<>> THEN s
    ELSE FoldReducer(reducer(s, Head(acts)).value, Tail(acts))

\* C11 Chaining: dispatch returns the very Store it was called on, so when the calls
\* of a chain dispatch(a1).dispatch(a2)...dispatch(an) have returned, every one of them
\* was made on the Store, the state is the left fold of the reducer over a1..an from
\* the state the chain started in, as after n separate calls, and every registered
\* observer has been invoked n times, once per call.
C11_Chaining ==
    DispatchReturned
        => /\ ret.val = SelfRef
           /\ \A i \in 1 .. Len(chain.receivers) : chain.receivers[i] = SelfRef
           /\ State = FoldReducer(chain.start, chain.actions)
           /\ State = FoldReducer(initial_state, dispatched)
           /\ DOMAIN chain.notified = DOMAIN subscriptions
           /\ \A t \in DOMAIN subscriptions : chain.notified[t] = Len(chain.actions)

\* three chained Increments from 0 have returned and left 3, with an observer
\* registered that was invoked three times
C11_Witness ==
    /\ DispatchReturned
    /\ reducer_fn = "inc_dec"
    /\ chain.start = initial_state
    /\ chain.actions = <<"Increment", "Increment", "Increment">>
    /\ chain.receivers = <<SelfRef, SelfRef, SelfRef>>
    /\ State = 3
    /\ subscriptions # EmptyMap
    /\ \A t \in DOMAIN subscriptions : chain.notified[t] = 3

\* C12 subscribe and unsubscribe touch only the registry and the token counter: neither
\* invokes an observer, the one just subscribed included, and after either call, failed
\* or not, state() returns what it returned before.
C12_SubscriptionFrame ==
    [][(ret'.op \in {"subscribe", "unsubscribe"})
         => /\ State' = State
            /\ calls' = EmptyMap
            /\ dispatched' = dispatched]_vars

\* the tests' observer has been subscribed to a Store whose state is 2 and was not invoked
C12_Witness ==
    /\ ret.op = "subscribe"
    /\ ret.res = "Ok"
    /\ ret.arg = "assert_eq_1"
    /\ subscriptions[ret.val] = "assert_eq_1"
    /\ State = 2
    /\ calls = EmptyMap

\* C13 dispatch leaves the registry and the token counter unchanged: the registered
\* tokens, the observer under each and the next token to issue are the same before and
\* after every dispatch, however it ends.
C13_DispatchFrame ==
    [][(ret'.op = "dispatch")
         => /\ subscriptions' = subscriptions
            /\ subscriptions_index' = subscriptions_index]_vars

\* a dispatch has returned on a Store that still holds both observers it notified
C13_Witness ==
    /\ DispatchReturned
    /\ subscriptions_index >= 2
    /\ \E t, u \in DOMAIN subscriptions : subscriptions[t] # subscriptions[u]
    /\ DOMAIN calls = DOMAIN subscriptions

\* C14 Observers are notified on every dispatch, not only on a change of value: when
\* reducer(s, a) = s, a dispatch(a) that returns has still invoked every registered
\* observer exactly once.
C14_NotifiedWithoutChange ==
    [][(DispatchReturned' /\ ndispatch' # ndispatch /\ reducer(state, ret'.arg).value = state)
         => /\ State' = state
            /\ DOMAIN calls' = DOMAIN subscriptions
            /\ \A t \in DOMAIN calls' : calls'[t].times = 1 /\ calls'[t].seen = state]_vars

\* the second dispatch under the constant reducer left the state 1 and notified the
\* observers registered
C14_Witness ==
    /\ DispatchReturned
    /\ reducer_fn = "const_1"
    /\ ndispatch = 2
    /\ State = constant_state
    /\ Cardinality(DOMAIN calls) >= 2
    /\ \A t \in DOMAIN calls : calls[t].times = 1

\* C15 Reducer failure: when the reducer panics during dispatch(a), the panic reaches
\* the caller of dispatch, no observer is invoked by that dispatch, the stored state is
\* still the value before the dispatch and the registry is unchanged.
C15_ReducerFailure ==
    [][(ret'.op = "dispatch" /\ reducer(state, ret'.arg).panic)
         => /\ ret'.res = "panic"
            /\ calls' = EmptyMap
            /\ State' = State
            /\ subscriptions' = subscriptions]_vars

\* with overflow checks on, Decrement on the state 0 has panicked in the reducer while
\* observers were registered
C15_Witness ==
    /\ ret.op = "dispatch"
    /\ ret.res = "panic"
    /\ ret.arg = "Decrement"
    /\ overflow_checks
    /\ reducer(State, ret.arg).panic
    /\ State = 0
    /\ Cardinality(DOMAIN subscriptions) >= 2
    /\ calls = EmptyMap

\* C16 subscribe grows the registry by exactly one entry and displaces none: after
\* subscribe(f) returns t the registry is the previous one plus t -> f, every earlier
\* entry is still under its token, and the number of entries is the number of
\* subscribe calls minus the number of successful unsubscribe calls.
C16_SubscribeGrowsByOne ==
    [][(ret'.op = "subscribe" /\ ret'.res = "Ok")
         => /\ ~ContainsKey(subscriptions, ret'.val)
            /\ DOMAIN subscriptions' = (DOMAIN subscriptions) \cup {ret'.val}
            /\ subscriptions'[ret'.val] = ret'.arg
            /\ \A t \in DOMAIN subscriptions : subscriptions'[t] = subscriptions[t]
            /\ Cardinality(DOMAIN subscriptions') = nsubscribe' - Cardinality(removed')]_vars

\* C17 A successful unsubscribe(t) removes exactly the entry for t: every other token
\* keeps its observer, and the token counter is not changed, so the freed token is not
\* the next one issued.
C17_UnsubscribeRemovesExactlyOne ==
    [][(ret'.op = "unsubscribe" /\ ret'.res = "Ok")
         => /\ DOMAIN subscriptions' = (DOMAIN subscriptions) \ {ret'.arg}
            /\ \A t \in DOMAIN subscriptions' : subscriptions'[t] = subscriptions[t]
            /\ subscriptions_index' = subscriptions_index
            /\ subscriptions_index' # ret'.arg]_vars

\* C18 An observer's failure is not rolled back: when an observer panics inside
\* dispatch(a), the stored state is already reducer(s, a) and stays so, the registry
\* is unchanged, and the iteration ends there: the entries not yet reached are not
\* invoked, so exactly one of the invocations made is one that panics.
C18_ObserverFailure ==
    [][(ret'.op = "dispatch" /\ ret'.res = "panic" /\ ~reducer(state, ret'.arg).panic)
         => /\ State' = reducer(state, ret'.arg).value
            /\ subscriptions' = subscriptions
            /\ DOMAIN calls' \subseteq DOMAIN subscriptions
            /\ \A t \in DOMAIN calls' : calls'[t].times = 1
            /\ Cardinality({t \in DOMAIN calls' : ObserverPanics(calls'[t].func, State')}) = 1]_vars

\* a dispatch has panicked in an observer after the empty closure was invoked, with an
\* entry left unreached and the new state stored
C18_Witness ==
    /\ ret.op = "dispatch"
    /\ ret.res = "panic"
    /\ State # initial_state
    /\ \E t \in DOMAIN calls : calls[t].func = "noop"
    /\ \E t \in DOMAIN calls : ObserverPanics(calls[t].func, State)
    /\ (DOMAIN subscriptions) \ (DOMAIN calls) # {}

\* C19 Registrations are identified by token, not by callback: subscribing an observer
\* function that is already registered returns a token different from the ones it is
\* registered under, and it stays registered under those as well.
C19_RegistrationsByToken ==
    [][(ret'.op = "subscribe" /\ ret'.res = "Ok")
         => LET same == {u \in DOMAIN subscriptions : subscriptions[u] = ret'.arg}
            IN  /\ ret'.val \notin same
                /\ same \subseteq DOMAIN subscriptions'
                /\ \A u \in same : subscriptions'[u] = ret'.arg]_vars

====
